---- MODULE Spec2Model ----
(***************************************************************************)
(* Social Bingo (src/src/App.jsx): the layout generator of                 *)
(* handleCreateGame and the participant synchronisation of SocialBingoApp  *)
(* (join, cell toggle, rename, snapshot handlers) over a document store.   *)
(*                                                                         *)
(* The store is the external collaborator: documents live on a server,     *)
(* every client has a FIFO queue of writes that have been issued but have  *)
(* not yet reached the server, and a client's listeners see the server's   *)
(* documents overlaid with its own queued writes (a queued server          *)
(* timestamp reads as null).                                               *)
(***************************************************************************)
EXTENDS Integers, Sequences, FiniteSets, TLC

\* ------------------------------------------------------------------ bounds
\* Math.random() is modelled as k / RandDen for k in 0 .. RandDen-1.
RandDen == 3
\* Length of the period of a sequence of random draws in SpecLayout.
StreamLen == 3
\* Cell indices a user may click in the synchronisation model: 0 .. MaxToggleIdx.
MaxToggleIdx == 2
\* Number of toggle and rename writes issued in one behaviour of SpecToggle.
MaxOps == 3
\* Number of toggle and rename writes issued in one behaviour of SpecSolo.
SoloOps == 2
\* Number of toggle and rename writes issued in one behaviour of SpecPresence
\* and of SpecMarks.
PresenceOps == 2
\* Games created before the feed model starts, besides g1.
OlderGames == 5
\* Longest list of distinct items shuffled in SpecShuffle.
MaxShuffle == 4

\* --------------------------------------------------------- program constants
COLS == 6
ROWS == 4
TOTAL_CELLS == COLS * ROWS
MinItems == 10
MaxItems == 20
RecentLimit == 6
PreviewItems == 3

\* The gap marker of a layout slot (null in the source).
Gap == "null"

\* ------------------------------------------------------------ pure helpers
Min(a, b) == IF a < b THEN a ELSE b

Range(s) == {s[i] : i \in 1 .. Len(s)}

\* s.filter(keep), keeping order.
RECURSIVE Filter(_, _)
Filter(s, keep) ==
  IF s = <<>> THEN <<>>
  ELSE (IF Head(s) \in keep THEN <<Head(s)>> ELSE <<>>) \o Filter(Tail(s), keep)

\* s.filter(x => x !== v), keeping order.
RECURSIVE Without(_, _)
Without(s, v) ==
  IF s = <<>> THEN <<>>
  ELSE (IF Head(s) = v THEN <<>> ELSE <<Head(s)>>) \o Without(Tail(s), v)

\* A mutant of Swap: the second assignment is lost.
SwapLossy(s, i, j) == [s EXCEPT ![i] = s[j]]

\* [s[i], s[j]] = [s[j], s[i]] on 1-based positions.
Swap(s, i, j) == [s EXCEPT ![i] = s[j], ![j] = s[i]]

\* The t-th draw (1-based) of a periodic sequence of draws.
Draw(stream, t) == stream[((t - 1) % Len(stream)) + 1]

\* Math.floor(Math.random() * n) for the draw k / RandDen.
RandomIndex(k, n) == (k * n) \div RandDen

\* for (let i = s.length - 1; i > 0; i--) { j = floor(random * (i + 1)); swap(i, j) }
\* i is the 0-based index of the source; draws are taken from position t on.
RECURSIVE FisherYates(_, _, _, _)
FisherYates(s, i, stream, t) ==
  IF i < 1 THEN s
  ELSE FisherYates(Swap(s, i + 1, RandomIndex(Draw(stream, t), i + 1) + 1),
                   i - 1, stream, t + 1)

Shuffle(s, stream, t) == FisherYates(s, Len(s) - 1, stream, t)

\* Number of draws one shuffle of a sequence of length n takes.
DrawsOf(n) == IF n > 1 THEN n - 1 ELSE 0

\* A mutant of RowBucket: the rows are filled one after the other, COLS items
\* to a row.
RECURSIVE RowBucketBlocks(_, _, _)
RowBucketBlocks(items, r, k) ==
  IF k >= Len(items) THEN <<>>
  ELSE (IF k \div COLS = r THEN <<items[k + 1]>> ELSE <<>>)
         \o RowBucketBlocks(items, r, k + 1)

\* A mutant of RowBucket: the item of position k goes to row (k + 1) % 4.
RECURSIVE RowBucketShifted(_, _, _)
RowBucketShifted(items, r, k) ==
  IF k >= Len(items) THEN <<>>
  ELSE (IF (k + 1) % ROWS = r THEN <<items[k + 1]>> ELSE <<>>)
         \o RowBucketShifted(items, r, k + 1)

\* rows[index % 4].push(item): the items of 0-based positions k with k % 4 = r.
RECURSIVE RowBucket(_, _, _)
RowBucket(items, r, k) ==
  IF k >= Len(items) THEN <<>>
  ELSE (IF k % ROWS = r THEN <<items[k + 1]>> ELSE <<>>) \o RowBucket(items, r, k + 1)

\* while (rowItems.length < COLS) rowItems.push(null)
PadRow(row) == row \o [i \in 1 .. (IF Len(row) < COLS THEN COLS - Len(row) ELSE 0) |-> Gap]

\* rows.forEach(rowItems => { pad; shuffle; layout.push(...rowItems) })
RECURSIVE FillRows(_, _, _, _)
FillRows(items, r, stream, t) ==
  IF r >= ROWS THEN <<>>
  ELSE LET padded == PadRow(RowBucket(items, r, 0))
       IN  Shuffle(padded, stream, t)
             \o FillRows(items, r + 1, stream, t + DrawsOf(Len(padded)))

\* The layout handleCreateGame builds from the validated items and the draws.
GenerateLayout(items, stream) ==
  FillRows(Shuffle(items, stream, 1), 0, stream, 1 + DrawsOf(Len(items)))

\* ------------------------------------------------------- name generation
ADJECTIVES == <<"Funky", "Grumpy", "Cheeky", "Sleepy", "Hyper",
                "Happy", "Salty", "Spicy", "Lucky", "Dizzy">>
COLORS == <<"Red", "Blue", "Pink", "Neon", "Lime",
            "Cosmic", "Rusty", "Golden", "Silver", "Violet">>
NOUNS == <<"Badger", "Cactus", "Taco", "Ninja", "Panda",
           "Toaster", "Pickle", "Muffin", "Wizard", "Goose">>

\* `${col}-${adj}-${noun}-${num}` from four consecutive draws.
generateFunnyName(stream) ==
  LET col  == COLORS[RandomIndex(Draw(stream, 1), Len(COLORS)) + 1]
      adj  == ADJECTIVES[RandomIndex(Draw(stream, 2), Len(ADJECTIVES)) + 1]
      noun == NOUNS[RandomIndex(Draw(stream, 3), Len(NOUNS)) + 1]
      num  == RandomIndex(Draw(stream, 4), 99) + 1
  IN  col \o "-" \o adj \o "-" \o noun \o "-" \o ToString(num)

\* ------------------------------------------------------------- the inputs
Clients == {"c1", "c2"}
Uids == {"u1", "u2"}
\* Document order of a collection snapshot (by document id).
UidOrder == <<"u1", "u2">>
GameIds == {"g1", "g2"}

\* A line of the textarea is blank when line.trim() === ''.
IsBlank(line) == line \in {"", " "}

ItemPool == <<"a", "b", "c", "d", "e", "f", "g", "h", "i", "j", "k",
              "l", "m", "n", "o", "p", "q", "r", "s", "t", "u">>

\* The textarea content with n items, as its lines; a blank line follows the
\* first item.
TextOf(n) == <<ItemPool[1], " ">> \o [i \in 1 .. (n - 1) |-> ItemPool[i + 1]]

\* Texts typed in the synchronisation model: one valid, one too short.
SyncTexts == {TextOf(MinItems), TextOf(MinItems - 1)}
\* Texts typed in the layout model: every size from one below to one above the range.
LayoutTexts == {TextOf(n) : n \in (MinItems - 1) .. (MaxItems + 1)}

\* Sequences of draws: two constant ones in the synchronisation model,
\* every periodic one of period StreamLen in the layout model.
SyncStreams == {<<0>>, <<1>>}
LayoutStreams == [1 .. StreamLen -> 0 .. (RandDen - 1)]

\* Names typed into the rename field.
TypedNames == {"", " ", "Zed"}

ToggleInputs == 0 .. MaxToggleIdx

\* The cells the two tabs of one identity click: the first and the last of
\* ToggleInputs (an item and a gap of the session's layout).
TabToggleInputs == {0, MaxToggleIdx}

\* ------------------------------------------------------------- documents
NoGame == [exists |-> FALSE, layout |-> <<>>, createdAt |-> 0,
           creatorId |-> "", participantCount |-> 0]

PartFields == {"name", "checkedIndices", "userId", "lastActive"}

NoPart == [exists |-> FALSE, has |-> {}, name |-> "", checkedIndices |-> <<>>,
           userId |-> "", lastActive |-> 0]

\* A queued write of document gid (a game) or gid/uid (a participant). op is
\* one of createGame, createPart, increment, toggle, rename. index and pre
\* record the call that issued a toggle: the index it was given and the
\* checkedIndices the server held when it was called.
Write(op, gid, uid) ==
  [op |-> op, gid |-> gid, uid |-> uid, name |-> "", checks |-> <<>>,
   layout |-> <<>>, index |-> 0, pre |-> <<>>]

IsPartWrite(w) == w.op \in {"createPart", "toggle", "rename"}
HasTimestamp(w) == w.op \in {"createGame", "createPart", "toggle", "rename"}

\* A mutant of ApplyPart: toggle and rename are written without {merge: true}.
ApplyPartNoMerge(d, w, ts) ==
  IF w.op = "createPart" THEN
    [exists |-> TRUE, has |-> {"name", "checkedIndices", "userId", "lastActive"},
     name |-> w.name, checkedIndices |-> <<>>, userId |-> w.uid, lastActive |-> ts]
  ELSE IF w.op = "toggle" THEN
    [exists |-> TRUE, has |-> {"checkedIndices", "lastActive"}, name |-> "",
     checkedIndices |-> w.checks, userId |-> "", lastActive |-> ts]
  ELSE IF w.op = "rename" THEN
    [exists |-> TRUE, has |-> {"name", "lastActive"}, name |-> w.name,
     checkedIndices |-> <<>>, userId |-> "", lastActive |-> ts]
  ELSE d

\* A participant document after write w; ts is the value of serverTimestamp()
\* (the server's clock on the server, null = 0 while the write is queued).
ApplyPart(d, w, ts) ==
  IF w.op = "createPart" THEN
    \* setDoc(myPartRef, {name, checkedIndices: [], userId, lastActive}), no merge
    [exists |-> TRUE, has |-> PartFields, name |-> w.name,
     checkedIndices |-> <<>>, userId |-> w.uid, lastActive |-> ts]
  ELSE IF w.op = "toggle" THEN
    \* setDoc(myPartRef, {checkedIndices, lastActive}, {merge: true})
    [d EXCEPT !.exists = TRUE, !.has = @ \cup {"checkedIndices", "lastActive"},
              !.checkedIndices = w.checks, !.lastActive = ts]
  ELSE IF w.op = "rename" THEN
    \* setDoc(myPartRef, {name, lastActive}, {merge: true})
    [d EXCEPT !.exists = TRUE, !.has = @ \cup {"name", "lastActive"},
              !.name = w.name, !.lastActive = ts]
  ELSE d

\* A mutant of ApplyGame: the counter is written by replacing the document.
ApplyGameReplace(d, w, ts) ==
  IF w.op = "createGame" THEN
    [exists |-> TRUE, layout |-> w.layout, createdAt |-> ts,
     creatorId |-> w.uid, participantCount |-> 0]
  ELSE IF w.op = "increment" /\ d.exists THEN
    [NoGame EXCEPT !.exists = TRUE, !.participantCount = d.participantCount + 1]
  ELSE d

\* A game document after write w.
ApplyGame(d, w, ts) ==
  IF w.op = "createGame" THEN
    [exists |-> TRUE, layout |-> w.layout, createdAt |-> ts,
     creatorId |-> w.uid, participantCount |-> 0]
  ELSE IF w.op = "increment" /\ d.exists THEN
    \* updateDoc(gameRef, {participantCount: increment(1)})
    [d EXCEPT !.participantCount = @ + 1]
  ELSE d

\* ----------------------------------------------------------------- state
VARIABLES
  games,              \* server: game id -> game document
  parts,              \* server: game id -> uid -> participant document
  clock,              \* server: the last server timestamp handed out
  user,               \* client -> uid of the signed-in user, "" = null
  view,               \* client -> "home", "create" or "play"
  gameId,             \* client -> game id, "" = empty
  inputList,          \* client -> the textarea, as its lines
  recentGames,        \* client -> the recent games shown in the home view
  shuffleRun,         \* a shuffle of handleCreateGame: its array, choices and result
  previewText,        \* the preview lines of the recent games in the home view
  isCreating,         \* client -> BOOLEAN
  gameData,           \* client -> game document, NoGame = null
  participants,       \* client -> displayed participant documents, in order
  myParticipantData,  \* client -> participant document, NoPart = null
  newName,            \* client -> content of the rename field
  isEditingName,      \* client -> BOOLEAN
  errorMsg,           \* client -> error banner text
  recentSub,          \* client -> listener on the recent games query
  gameSub,            \* client -> listener on the game document
  partsSub,           \* client -> listener on the participant collection
  reads,              \* client -> bag of getDoc(myPartRef) calls in flight
  writes,             \* client -> queue of writes not yet at the server
  ops                 \* number of toggle and rename writes issued so far

storeVars == <<games, parts, clock>>
uiVars == <<user, view, gameId, inputList, recentGames, shuffleRun, previewText, isCreating, gameData,
            participants,
            myParticipantData, newName, isEditingName, errorMsg>>
netVars == <<recentSub, gameSub, partsSub, reads, writes>>
vars == <<storeVars, uiVars, netVars, ops>>

\* No shuffle under observation.
NoShuffle == [input |-> <<>>, picks |-> <<>>, output |-> <<>>, done |-> FALSE]

NoRecentSub == [active |-> FALSE, delivered |-> FALSE]
NoGameSub == [active |-> FALSE, gid |-> "", delivered |-> FALSE]
NoPartsSub == [active |-> FALSE, gid |-> "", uid |-> "", capEmpty |-> FALSE,
               delivered |-> FALSE]

\* A getDoc in flight: its target, and whether the client's own queue held a
\* write of the target when the read was issued (the read then sees it).
ReadKeys == [gid : GameIds, uid : Uids, hit : BOOLEAN]

\* ------------------------------------------------- what a client's listeners see
RECURSIVE FoldPart(_, _, _, _)
FoldPart(d, wq, g, u) ==
  IF wq = <<>> THEN d
  ELSE FoldPart(IF IsPartWrite(Head(wq)) /\ Head(wq).gid = g /\ Head(wq).uid = u
                THEN ApplyPart(d, Head(wq), 0) ELSE d,
                Tail(wq), g, u)

RECURSIVE FoldGame(_, _, _)
FoldGame(d, wq, g) ==
  IF wq = <<>> THEN d
  ELSE FoldGame(IF ~IsPartWrite(Head(wq)) /\ Head(wq).gid = g
                THEN ApplyGame(d, Head(wq), 0) ELSE d,
                Tail(wq), g)

\* The participant collection of game g as a client with queue wq sees it.
ViewParts(srv, wq, g) == [u \in Uids |-> FoldPart(srv[g][u], wq, g, u)]
\* The game document g as a client with queue wq sees it.
ViewGame(srv, wq, g) == FoldGame(srv[g], wq, g)

\* snapshot.forEach: the documents that exist, in document order.
RECURSIVE DocList(_, _)
DocList(pv, k) ==
  IF k > Len(UidOrder) THEN <<>>
  ELSE (IF pv[UidOrder[k]].exists THEN <<pv[UidOrder[k]]>> ELSE <<>>) \o DocList(pv, k + 1)

\* a.lastActive?.toMillis() || 0
TimeOf(p) == IF "lastActive" \in p.has THEN p.lastActive ELSE 0

\* A mutant of InsertDesc: the comparator is timeA - timeB.
RECURSIVE InsertAsc(_, _)
InsertAsc(sorted, x) ==
  IF sorted = <<>> THEN <<x>>
  ELSE IF TimeOf(Head(sorted)) <= TimeOf(x)
       THEN <<Head(sorted)>> \o InsertAsc(Tail(sorted), x)
       ELSE <<x>> \o sorted

\* parts.sort((a, b) => timeB - timeA): stable, descending.
RECURSIVE InsertDesc(_, _)
InsertDesc(sorted, x) ==
  IF sorted = <<>> THEN <<x>>
  ELSE IF TimeOf(Head(sorted)) >= TimeOf(x)
       THEN <<Head(sorted)>> \o InsertDesc(Tail(sorted), x)
       ELSE <<x>> \o sorted

RECURSIVE SortParts(_, _)
SortParts(list, acc) ==
  IF list = <<>> THEN acc ELSE SortParts(Tail(list), InsertDesc(acc, Head(list)))

\* The last document of the snapshot with data.userId === user.uid, else old.
RECURSIVE MineOf(_, _, _)
MineOf(list, uid, old) ==
  IF list = <<>> THEN old
  ELSE MineOf(Tail(list), uid,
              IF "userId" \in Head(list).has /\ Head(list).userId = uid
              THEN Head(list) ELSE old)

HasMine(list, uid) ==
  \E i \in 1 .. Len(list) : "userId" \in list[i].has /\ list[i].userId = uid

\* ------------------------------------------------------------------ Init
Init ==
  /\ games = [g \in GameIds |-> NoGame]
  /\ parts = [g \in GameIds |-> [u \in Uids |-> NoPart]]
  /\ clock = 0
  /\ user = [c \in Clients |-> ""]
  /\ view = [c \in Clients |-> "home"]
  /\ gameId = [c \in Clients |-> ""]
  /\ inputList = [c \in Clients |-> <<>>]
  /\ recentGames = [c \in Clients |-> <<>>]
  /\ shuffleRun = NoShuffle
  /\ previewText = [c \in Clients |-> <<>>]
  /\ isCreating = [c \in Clients |-> FALSE]
  /\ gameData = [c \in Clients |-> NoGame]
  /\ participants = [c \in Clients |-> <<>>]
  /\ myParticipantData = [c \in Clients |-> NoPart]
  /\ newName = [c \in Clients |-> ""]
  /\ isEditingName = [c \in Clients |-> FALSE]
  /\ errorMsg = [c \in Clients |-> ""]
  /\ recentSub = [c \in Clients |-> [active |-> TRUE, delivered |-> FALSE]]
  /\ gameSub = [c \in Clients |-> NoGameSub]
  /\ partsSub = [c \in Clients |-> NoPartsSub]
  /\ reads = [c \in Clients |-> [k \in ReadKeys |-> 0]]
  /\ writes = [c \in Clients |-> <<>>]
  /\ ops = 0

\* useEffect(..., [view]): the listener on the recent games query, held
\* while the view is home; the cleanup releases it when the view changes.
RecentEffect(c) ==
  recentSub' = [recentSub EXCEPT ![c] =
    IF view'[c] = view[c] THEN @
    ELSE IF view'[c] = "home" THEN [active |-> TRUE, delivered |-> FALSE]
         ELSE NoRecentSub]

\* A mutant of GameEffect: gameId is missing from the dependency list.
GameEffectNoGameIdDep(c) ==
  gameSub' = [gameSub EXCEPT ![c] =
    IF <<view'[c], user'[c]>> = <<view[c], user[c]>>
    THEN @
    ELSE IF view'[c] = "play" /\ gameId'[c] # "" /\ user'[c] # ""
         THEN [active |-> TRUE, gid |-> gameId'[c], delivered |-> FALSE]
         ELSE NoGameSub]

\* ----------------------------------------------------------- the effects
\* useEffect(..., [view, gameId, user]): the listener on the game document
\* after a render in which the primed values are the new state.
GameEffect(c) ==
  gameSub' = [gameSub EXCEPT ![c] =
    IF <<view'[c], gameId'[c], user'[c]>> = <<view[c], gameId[c], user[c]>>
    THEN @
    ELSE IF view'[c] = "play" /\ gameId'[c] # "" /\ user'[c] # ""
         THEN [active |-> TRUE, gid |-> gameId'[c], delivered |-> FALSE]
         ELSE NoGameSub]

\* Whether the client's queue wq holds a write of participant document (g, u).
QueuedPart(wq, g, u) ==
  \E i \in 1 .. Len(wq) : IsPartWrite(wq[i]) /\ wq[i].gid = g /\ wq[i].uid = u

\* useEffect(..., [gameId, user, gameData]): getDoc(myPartRef) and the listener
\* on the participant collection. gdNew: setGameData was given a new value.
PartEffectFrom(c, gdNew, rd) ==
  LET runs == gdNew \/ gameId'[c] # gameId[c] \/ user'[c] # user[c]
      pass == gameId'[c] # "" /\ user'[c] # "" /\ gameData'[c].exists
      key  == [gid |-> gameId'[c], uid |-> user'[c],
               hit |-> QueuedPart(writes'[c], gameId'[c], user'[c])]
  IN  /\ partsSub' = [partsSub EXCEPT ![c] =
           IF ~runs THEN @
           ELSE IF pass
                THEN [active |-> TRUE, gid |-> gameId'[c], uid |-> user'[c],
                      capEmpty |-> (~isEditingName'[c] /\ newName'[c] = ""),
                      delivered |-> FALSE]
                ELSE NoPartsSub]
      /\ reads' = [reads EXCEPT ![c] =
           IF runs /\ pass THEN [rd EXCEPT ![key] = @ + 1] ELSE rd]

PartEffect(c, gdNew) == PartEffectFrom(c, gdNew, reads[c])

\* A mutant of PartsHandler: setParticipants(parts) is missing.
PartsHandlerNoSet(c, list, sub) ==
  /\ participants' = participants
  /\ myParticipantData' = [myParticipantData EXCEPT ![c] = MineOf(list, sub.uid, @)]
  /\ newName' = [newName EXCEPT ![c] =
       IF sub.capEmpty /\ HasMine(list, sub.uid)
       THEN MineOf(list, sub.uid, NoPart).name ELSE @]

\* The onSnapshot callback of the participant collection for snapshot `list`,
\* run by the listener `sub` (which closes over user.uid, isEditingName, newName).
PartsHandler(c, list, sub) ==
  /\ participants' = [participants EXCEPT ![c] = SortParts(list, <<>>)]
  /\ myParticipantData' = [myParticipantData EXCEPT ![c] = MineOf(list, sub.uid, @)]
  /\ newName' = [newName EXCEPT ![c] =
       IF sub.capEmpty /\ HasMine(list, sub.uid)
       THEN MineOf(list, sub.uid, NoPart).name ELSE @]

\* The callback as the store runs it right after the client queued a write of
\* a participant document of game g (the client's own write, seen at once).
PartsEcho(c, g) ==
  IF partsSub[c].active /\ partsSub[c].delivered /\ partsSub[c].gid = g
  THEN PartsHandler(c, DocList(ViewParts(parts, writes'[c], g), 1), partsSub[c])
  ELSE UNCHANGED <<participants, myParticipantData, newName>>

\* ------------------------------------------------------------- the actions
\* A mutant of Connected: the views are rendered without a signed-in user.
ConnectedAlways(c) == TRUE

\* if (!user) return <div>Connecting...</div>: the views, and with them every
\* button and field, are rendered only for a signed-in user.
Connected(c) == user[c] # ""

\* onAuthStateChanged(auth, (u) => setUser(u)): the provider signs the client in.
AuthStateChanged(c, u) ==
  /\ user[c] = ""
  /\ user' = [user EXCEPT ![c] = u]
  /\ UNCHANGED <<ops, storeVars, view, gameId, inputList, recentGames, shuffleRun, previewText, isCreating, gameData,
                 participants, myParticipantData, newName, isEditingName,
                 errorMsg, writes>>
  /\ RecentEffect(c)
  /\ GameEffect(c)
  /\ PartEffect(c, FALSE)

\* Home: onClick={() => setView('create')}
GoCreate(c) ==
  /\ Connected(c) /\ view[c] = "home"
  /\ view' = [view EXCEPT ![c] = "create"]
  /\ UNCHANGED <<ops, storeVars, user, gameId, inputList, recentGames, shuffleRun, previewText, isCreating, gameData,
                 participants, myParticipantData, newName, isEditingName,
                 errorMsg, writes>>
  /\ RecentEffect(c)
  /\ GameEffect(c)
  /\ PartEffect(c, FALSE)

\* Create: Cancel, onClick={() => setView('home')}
CancelCreate(c) ==
  /\ Connected(c) /\ view[c] = "create"
  /\ view' = [view EXCEPT ![c] = "home"]
  /\ UNCHANGED <<ops, storeVars, user, gameId, inputList, recentGames, shuffleRun, previewText, isCreating, gameData,
                 participants, myParticipantData, newName, isEditingName,
                 errorMsg, writes>>
  /\ RecentEffect(c)
  /\ GameEffect(c)
  /\ PartEffect(c, FALSE)

\* The ids of the games whose creation is under way: nobody knows them yet.
PendingIds ==
  {g \in GameIds : \E c \in Clients : \E i \in 1 .. Len(writes[c]) :
     writes[c][i].op = "createGame" /\ writes[c][i].gid = g}

\* Home: onChange={(e) => setGameId(e.target.value)}
TypeGameId(c, g) ==
  /\ Connected(c) /\ view[c] = "home"
  /\ gameId[c] # g
  /\ g \notin PendingIds
  /\ gameId' = [gameId EXCEPT ![c] = g]
  /\ UNCHANGED <<ops, storeVars, user, view, inputList, recentGames, shuffleRun, previewText, isCreating, gameData,
                 participants, myParticipantData, newName, isEditingName,
                 errorMsg, writes>>
  /\ RecentEffect(c)
  /\ GameEffect(c)
  /\ PartEffect(c, FALSE)

\* Home: Join, onClick={() => gameId && setView('play')}
ClickJoin(c) ==
  /\ Connected(c) /\ view[c] = "home"
  /\ gameId[c] # ""
  /\ view' = [view EXCEPT ![c] = "play"]
  /\ UNCHANGED <<ops, storeVars, user, gameId, inputList, recentGames, shuffleRun, previewText, isCreating, gameData,
                 participants, myParticipantData, newName, isEditingName,
                 errorMsg, writes>>
  /\ RecentEffect(c)
  /\ GameEffect(c)
  /\ PartEffect(c, FALSE)

\* Create: onChange={(e) => setInputList(e.target.value)}
TypeInput(c, text) ==
  /\ Connected(c) /\ view[c] = "create"
  /\ inputList[c] # text
  /\ inputList' = [inputList EXCEPT ![c] = text]
  /\ UNCHANGED <<ops, storeVars, user, view, gameId, recentGames, shuffleRun, previewText, isCreating, gameData,
                 participants, myParticipantData, newName, isEditingName,
                 errorMsg, netVars>>

\* inputList.split('\n').filter(line => line.trim() !== '')
ItemsOf(text) == Filter(text, {line \in Range(text) : ~IsBlank(line)})

\* A mutant of ValidInput: the lower limit is off by one.
ValidInputLoose(text) ==
  /\ \E i \in 1 .. Len(text) : ~IsBlank(text[i])
  /\ Len(ItemsOf(text)) >= MinItems - 1
  /\ Len(ItemsOf(text)) <= MaxItems

\* The validation of handleCreateGame: neither return is taken (the Generate
\* button is disabled on the same condition).
ValidInput(text) ==
  /\ \E i \in 1 .. Len(text) : ~IsBlank(text[i])
  /\ Len(ItemsOf(text)) >= MinItems
  /\ Len(ItemsOf(text)) <= MaxItems

\* Math.random().toString(36).substring(2, 9): an id no game has (a collision
\* of two 7-character ids is taken not to happen).
FreshIds ==
  {g \in GameIds :
     /\ ~games[g].exists
     /\ g \notin PendingIds
     /\ \A c \in Clients : gameId[c] # g}

\* handleCreateGame up to the awaited setDoc: validation, layout, the write.
HandleCreateGame(c, stream) ==
  /\ Connected(c) /\ view[c] = "create" /\ ~isCreating[c]
  /\ IF ValidInput(inputList[c])
     THEN \E newGameId \in FreshIds :
            /\ isCreating' = [isCreating EXCEPT ![c] = TRUE]
            /\ writes' = [writes EXCEPT ![c] =
                 Append(@, [Write("createGame", newGameId, user[c]) EXCEPT
                              !.layout = GenerateLayout(ItemsOf(inputList[c]), stream)])]
     ELSE UNCHANGED <<isCreating, writes>>
  /\ UNCHANGED <<ops, storeVars, user, view, gameId, inputList, recentGames, shuffleRun, previewText, gameData,
                 participants, myParticipantData, newName, isEditingName,
                 errorMsg, recentSub, gameSub, partsSub, reads>>

\* The server applies the oldest queued write of client c; the awaiting
\* handler, if any, resumes (handleCreateGame after setDoc, updateName after
\* setDoc).
Land(c) ==
  /\ writes[c] # <<>>
  /\ LET w  == Head(writes[c])
         ts == clock + 1
     IN  /\ writes' = [writes EXCEPT ![c] = Tail(@)]
         /\ clock' = IF HasTimestamp(w) THEN ts ELSE clock
         /\ parts' = IF IsPartWrite(w)
                     THEN [parts EXCEPT ![w.gid][w.uid] = ApplyPart(@, w, ts)]
                     ELSE parts
         /\ games' = IF IsPartWrite(w) THEN games
                     ELSE [games EXCEPT ![w.gid] = ApplyGame(@, w, ts)]
         \* setGameId(newGameId); setView('play'); finally setIsCreating(false)
         /\ gameId' = IF w.op = "createGame" THEN [gameId EXCEPT ![c] = w.gid] ELSE gameId
         /\ view' = IF w.op = "createGame" THEN [view EXCEPT ![c] = "play"] ELSE view
         /\ isCreating' = IF w.op = "createGame"
                          THEN [isCreating EXCEPT ![c] = FALSE] ELSE isCreating
         \* setIsEditingName(false)
         /\ isEditingName' = IF w.op = "rename"
                             THEN [isEditingName EXCEPT ![c] = FALSE] ELSE isEditingName
  /\ UNCHANGED <<ops, user, inputList, recentGames, shuffleRun, previewText, gameData, participants, myParticipantData,
                 newName, errorMsg>>
  /\ RecentEffect(c)
  /\ GameEffect(c)
  /\ PartEffect(c, FALSE)

\* The store rejects the awaited setDoc of handleCreateGame: the catch branch.
CreateFails(c) ==
  /\ writes[c] # <<>> /\ Head(writes[c]).op = "createGame"
  /\ writes' = [writes EXCEPT ![c] = Tail(@)]
  /\ errorMsg' = [errorMsg EXCEPT ![c] = "Failed to create game. Try again."]
  /\ isCreating' = [isCreating EXCEPT ![c] = FALSE]
  /\ UNCHANGED <<ops, storeVars, user, view, gameId, inputList, recentGames, shuffleRun, previewText, gameData,
                 participants, myParticipantData, newName, isEditingName,
                 recentSub, gameSub, partsSub, reads>>

\* The onSnapshot callback of the game document.
GameSnapshot(c) ==
  /\ gameSub[c].active
  /\ LET snap == ViewGame(games, writes[c], gameSub[c].gid)
     IN  /\ ~gameSub[c].delivered \/ snap # gameData[c]
         /\ gameData' = [gameData EXCEPT ![c] = IF snap.exists THEN snap ELSE NoGame]
         /\ errorMsg' = [errorMsg EXCEPT ![c] =
              IF snap.exists THEN "" ELSE "Game not found."]
         /\ UNCHANGED <<ops, storeVars, user, view, gameId, inputList, recentGames, shuffleRun, previewText, isCreating,
                        participants, myParticipantData, newName, isEditingName,
                        recentSub, writes>>
         /\ gameSub' = [gameSub EXCEPT ![c].delivered = TRUE]
         /\ PartEffect(c, snap.exists \/ gameData[c].exists)

\* The onSnapshot callback of the participant collection.
PartsSnapshot(c) ==
  /\ partsSub[c].active
  /\ LET list == DocList(ViewParts(parts, writes[c], partsSub[c].gid), 1)
     IN  /\ ~partsSub[c].delivered \/ SortParts(list, <<>>) # participants[c]
         /\ PartsHandler(c, list, partsSub[c])
  /\ partsSub' = [partsSub EXCEPT ![c].delivered = TRUE]
  /\ UNCHANGED <<ops, storeVars, user, view, gameId, inputList, recentGames, shuffleRun, previewText, isCreating, gameData,
                 isEditingName, errorMsg, recentSub, gameSub, reads, writes>>

\* A mutant of SnapExists: the read never finds the document.
SnapExistsNever(c, key) == FALSE

\* A mutant of SnapExists: the read also sees what other clients have queued
\* (an atomic create-if-absent).
SnapExistsAtomic(c, key) ==
  \/ parts[key.gid][key.uid].exists
  \/ \E d \in Clients : QueuedPart(writes[d], key.gid, key.uid)

\* snap.exists() of the read `key` of client c when it resolves.
SnapExists(c, key) == key.hit \/ parts[key.gid][key.uid].exists

\* A mutant of JoinWrites: the record is created under the first identity.
JoinWritesFirstUid(key, stream) ==
  <<[Write("createPart", key.gid, "u1") EXCEPT !.name = generateFunnyName(stream)],
    Write("increment", key.gid, key.uid)>>

\* setDoc(myPartRef, {...}); updateDoc(gameRef, {participantCount: increment(1)})
JoinWrites(key, stream) ==
  <<[Write("createPart", key.gid, key.uid) EXCEPT !.name = generateFunnyName(stream)],
    Write("increment", key.gid, key.uid)>>

\* getDoc(myPartRef).then(snap => { if (!snap.exists()) { setDoc; updateDoc } })
\* for one read in flight; the listeners of the client see its two writes at once.
JoinResolve(c, key, stream) ==
  /\ reads[c][key] > 0
  /\ LET rd   == [reads[c] EXCEPT ![key] = @ - 1]
         gsub == gameSub[c]
     IN  IF SnapExists(c, key)
         THEN /\ reads' = [reads EXCEPT ![c] = rd]
              /\ UNCHANGED <<ops, storeVars, uiVars, recentSub, gameSub, partsSub, writes>>
         ELSE /\ writes' = [writes EXCEPT ![c] = @ \o JoinWrites(key, stream)]
              /\ PartsEcho(c, key.gid)
              /\ UNCHANGED <<ops, storeVars, user, view, gameId, inputList, recentGames, shuffleRun, previewText, isCreating,
                             isEditingName, recentSub, gameSub>>
              /\ IF /\ gsub.active /\ gsub.delivered /\ gsub.gid = key.gid
                    /\ ViewGame(games, writes'[c], key.gid).exists
                 THEN /\ gameData' = [gameData EXCEPT ![c] =
                           ViewGame(games, writes'[c], key.gid)]
                      /\ errorMsg' = [errorMsg EXCEPT ![c] = ""]
                      /\ PartEffectFrom(c, TRUE, rd)
                 ELSE /\ UNCHANGED <<gameData, errorMsg, partsSub>>
                      /\ reads' = [reads EXCEPT ![c] = rd]

\* myParticipantData.checkedIndices || []
ChecksOf(p) == IF "checkedIndices" \in p.has THEN p.checkedIndices ELSE <<>>

\* currentChecks.includes(index) ? currentChecks.filter(i => i !== index)
\*                               : [...currentChecks, index]
NewChecks(currentChecks, index) ==
  IF index \in Range(currentChecks)
  THEN Without(currentChecks, index)
  ELSE Append(currentChecks, index)

\* The guard of toggleCell: the early return is not taken.
TogglePasses(c, index) ==
  myParticipantData[c].exists /\ gameData[c].layout[index + 1] # Gap

\* Play: onClick={() => toggleCell(idx)}
ToggleCell(c, index) ==
  /\ Connected(c) /\ view[c] = "play" /\ gameData[c].exists
  /\ IF TogglePasses(c, index)
     THEN /\ writes' = [writes EXCEPT ![c] =
               Append(@, [Write("toggle", gameId[c], user[c]) EXCEPT
                            !.checks = NewChecks(ChecksOf(myParticipantData[c]), index),
                            !.index = index,
                            !.pre = parts[gameId[c]][user[c]].checkedIndices])]
          /\ ops' = ops + 1
          /\ PartsEcho(c, gameId[c])
     ELSE UNCHANGED <<ops, writes, participants, myParticipantData, newName>>
  /\ UNCHANGED <<storeVars, user, view, gameId, inputList, recentGames, shuffleRun, previewText, isCreating, gameData,
                 isEditingName, errorMsg, recentSub, gameSub, partsSub, reads>>

\* Play: onClick={() => setIsEditingName(true)}
StartEditName(c) ==
  /\ Connected(c) /\ view[c] = "play" /\ gameData[c].exists
  /\ ~isEditingName[c]
  /\ isEditingName' = [isEditingName EXCEPT ![c] = TRUE]
  /\ UNCHANGED <<ops, storeVars, user, view, gameId, inputList, recentGames, shuffleRun, previewText, isCreating, gameData,
                 participants, myParticipantData, newName, errorMsg, netVars>>

\* Play: onChange={(e) => setNewName(e.target.value)}
TypeNewName(c, n) ==
  /\ Connected(c) /\ view[c] = "play" /\ gameData[c].exists
  /\ isEditingName[c] /\ newName[c] # n
  /\ newName' = [newName EXCEPT ![c] = n]
  /\ UNCHANGED <<ops, storeVars, user, view, gameId, inputList, recentGames, shuffleRun, previewText, isCreating, gameData,
                 participants, myParticipantData, isEditingName, errorMsg, netVars>>

\* Play: updateName up to the awaited setDoc (onBlur, Enter).
UpdateName(c) ==
  /\ Connected(c) /\ view[c] = "play" /\ gameData[c].exists
  /\ isEditingName[c]
  /\ IF ~IsBlank(newName[c])
     THEN /\ writes' = [writes EXCEPT ![c] =
               Append(@, [Write("rename", gameId[c], user[c]) EXCEPT
                            !.name = newName[c]])]
          /\ ops' = ops + 1
          /\ PartsEcho(c, gameId[c])
     ELSE UNCHANGED <<ops, writes, participants, myParticipantData, newName>>
  /\ UNCHANGED <<storeVars, user, view, gameId, inputList, recentGames, shuffleRun, previewText, isCreating, gameData,
                 isEditingName, errorMsg, recentSub, gameSub, partsSub, reads>>

\* ----------------------------------------------------- the specifications
\* A store that already holds one game, created earlier from a valid text.
SessionLayout == GenerateLayout(ItemsOf(TextOf(MinItems)), <<0>>)

InitSession ==
  /\ games = [g \in GameIds |->
       IF g = "g1"
       THEN [exists |-> TRUE, layout |-> SessionLayout, createdAt |-> 1,
             creatorId |-> "u1", participantCount |-> 0]
       ELSE NoGame]
  /\ parts = [g \in GameIds |-> [u \in Uids |-> NoPart]]
  /\ clock = 1
  /\ user = [c \in Clients |-> ""]
  /\ view = [c \in Clients |-> "home"]
  /\ gameId = [c \in Clients |-> ""]
  /\ inputList = [c \in Clients |-> <<>>]
  /\ recentGames = [c \in Clients |-> <<>>]
  /\ shuffleRun = NoShuffle
  /\ previewText = [c \in Clients |-> <<>>]
  /\ isCreating = [c \in Clients |-> FALSE]
  /\ gameData = [c \in Clients |-> NoGame]
  /\ participants = [c \in Clients |-> <<>>]
  /\ myParticipantData = [c \in Clients |-> NoPart]
  /\ newName = [c \in Clients |-> ""]
  /\ isEditingName = [c \in Clients |-> FALSE]
  /\ errorMsg = [c \in Clients |-> ""]
  /\ recentSub = [c \in Clients |-> [active |-> TRUE, delivered |-> FALSE]]
  /\ gameSub = [c \in Clients |-> NoGameSub]
  /\ partsSub = [c \in Clients |-> NoPartsSub]
  /\ reads = [c \in Clients |-> [k \in ReadKeys |-> 0]]
  /\ writes = [c \in Clients |-> <<>>]
  /\ ops = 0

\* The identity the provider gives each client: one user per client, or the
\* same user in both (two tabs of one browser).
DistinctIds == [c \in Clients |-> IF c = "c1" THEN "u1" ELSE "u2"]
SameIds == [c \in Clients |-> "u1"]

\* Entering a game from the home view.
NavStep(c) ==
  \/ \E g \in GameIds : TypeGameId(c, g)
  \/ ClickJoin(c)

\* The create view.
CreateStep(c) ==
  \/ GoCreate(c)
  \/ CancelCreate(c)
  \/ \E text \in SyncTexts : TypeInput(c, text)
  \/ \E stream \in SyncStreams : HandleCreateGame(c, stream)

\* The store: writes reaching the server, reads and snapshots reaching the
\* client; a join draws its name from one of `streams`.
StoreStepWith(c, streams) ==
  \/ Land(c)
  \/ GameSnapshot(c)
  \/ PartsSnapshot(c)
  \/ \E key \in ReadKeys : \E stream \in streams : JoinResolve(c, key, stream)

StoreStep(c) == StoreStepWith(c, SyncStreams)
\* The same with one sequence of draws for the names.
StoreStepOneName(c) == StoreStepWith(c, {<<0>>})

\* The rename field of the play view.
RenameStep(c) ==
  \/ StartEditName(c)
  \/ \E n \in TypedNames : TypeNewName(c, n)
  \/ ops < PresenceOps /\ UpdateName(c)

\* Two clients with distinct identities joining the existing game.
Next ==
  \E c \in Clients :
    \/ AuthStateChanged(c, DistinctIds[c])
    \/ NavStep(c)
    \/ StoreStep(c)

Spec == InitSession /\ [][Next]_vars

\* The store delivers: every queued write reaches the server, every read and
\* every pending snapshot reaches its client.
Fairness == \A c \in Clients : WF_vars(StoreStep(c))

FairSpec == Spec /\ Fairness

\* Two tabs of one identity joining the existing game.
NextTabs ==
  \E c \in Clients :
    \/ AuthStateChanged(c, SameIds[c])
    \/ NavStep(c)
    \/ StoreStep(c)

SpecTabs == InitSession /\ [][NextTabs]_vars

\* Two tabs of one identity joining the existing game and toggling cells.
NextToggle ==
  \E c \in Clients :
    \/ AuthStateChanged(c, SameIds[c])
    \/ TypeGameId(c, "g1")
    \/ ClickJoin(c)
    \/ StoreStepOneName(c)
    \/ \E index \in TabToggleInputs : ops < MaxOps /\ ToggleCell(c, index)

SpecToggle == InitSession /\ [][NextToggle]_vars

\* One client that joins the existing game, creates games and toggles cells.
NextSolo ==
  \E c \in {"c1"} :
    \/ AuthStateChanged(c, DistinctIds[c])
    \/ NavStep(c)
    \/ CreateStep(c)
    \/ StoreStepOneName(c)
    \/ \E index \in ToggleInputs : ops < SoloOps /\ ToggleCell(c, index)

SpecSolo == InitSession /\ [][NextSolo]_vars

FairSolo == SpecSolo /\ WF_vars(StoreStepOneName("c1"))

\* One client whose game creations may be rejected by the store, and which
\* joins games from the home view.
NextRecover ==
  \E c \in {"c1"} :
    \/ AuthStateChanged(c, DistinctIds[c])
    \/ NavStep(c)
    \/ CreateStep(c)
    \/ CreateFails(c)
    \/ StoreStepOneName(c)

SpecRecover == InitSession /\ [][NextRecover]_vars

\* ------------------------------------------------------------ the shuffle
\* The choices of one shuffle of m elements: one j in 0 .. i for each i from
\* m - 1 down to 1, in the order the loop makes them.
ChoiceSeqs(m) ==
  {js \in [1 .. (m - 1) -> 0 .. (m - 1)] : \A t \in 1 .. (m - 1) : js[t] <= m - t}

\* A mutant of FisherYatesBy: j is chosen in 0 .. i - 1 (Sattolo's loop).
RECURSIVE FisherYatesByBelow(_, _, _)
FisherYatesByBelow(s, i, js) ==
  IF i < 1 THEN s
  ELSE FisherYatesByBelow(Swap(s, i + 1, (js[Len(s) - i] % i) + 1), i - 1, js)

\* for (let i = s.length - 1; i > 0; i--) { j = ...; swap(i, j) } with the
\* chosen j of each iteration given by js.
RECURSIVE FisherYatesBy(_, _, _)
FisherYatesBy(s, i, js) ==
  IF i < 1 THEN s
  ELSE FisherYatesBy(Swap(s, i + 1, js[Len(s) - i] + 1), i - 1, js)

\* The arrays handleCreateGame shuffles: a list of distinct items, and a row
\* of 2 to 5 items padded with gaps to COLS slots.
ShuffleInputs ==
  {SubSeq(ItemPool, 1, m) : m \in 1 .. MaxShuffle}
    \cup {PadRow(SubSeq(ItemPool, 1, k)) : k \in 2 .. (COLS - 1)}

\* The state after construction, with the array a shuffle is about to run on.
InitShuffle ==
  /\ games = [g \in GameIds |-> NoGame]
  /\ parts = [g \in GameIds |-> [u \in Uids |-> NoPart]]
  /\ clock = 0
  /\ user = [c \in Clients |-> ""]
  /\ view = [c \in Clients |-> "home"]
  /\ gameId = [c \in Clients |-> ""]
  /\ inputList = [c \in Clients |-> <<>>]
  /\ recentGames = [c \in Clients |-> <<>>]
  /\ shuffleRun \in {[NoShuffle EXCEPT !.input = arr] : arr \in ShuffleInputs}
  /\ previewText = [c \in Clients |-> <<>>]
  /\ isCreating = [c \in Clients |-> FALSE]
  /\ gameData = [c \in Clients |-> NoGame]
  /\ participants = [c \in Clients |-> <<>>]
  /\ myParticipantData = [c \in Clients |-> NoPart]
  /\ newName = [c \in Clients |-> ""]
  /\ isEditingName = [c \in Clients |-> FALSE]
  /\ errorMsg = [c \in Clients |-> ""]
  /\ recentSub = [c \in Clients |-> [active |-> TRUE, delivered |-> FALSE]]
  /\ gameSub = [c \in Clients |-> NoGameSub]
  /\ partsSub = [c \in Clients |-> NoPartsSub]
  /\ reads = [c \in Clients |-> [k \in ReadKeys |-> 0]]
  /\ writes = [c \in Clients |-> <<>>]
  /\ ops = 0

\* One run of the shuffle loop on the array, with one sequence of choices.
ShuffleRuns ==
  /\ ~shuffleRun.done
  /\ \E js \in ChoiceSeqs(Len(shuffleRun.input)) :
       shuffleRun' = [shuffleRun EXCEPT
                        !.picks = js,
                        !.output = FisherYatesBy(shuffleRun.input,
                                                 Len(shuffleRun.input) - 1, js),
                        !.done = TRUE]
  /\ UNCHANGED <<ops, storeVars, user, view, gameId, inputList, recentGames, previewText,
                 isCreating, gameData, participants, myParticipantData, newName,
                 isEditingName, errorMsg, netVars>>

NextShuffle == ShuffleRuns

SpecShuffle == InitShuffle /\ [][NextShuffle]_vars

\* ------------------------------------------------------ the recent games
\* Ids of games created earlier by other clients, and the document order of
\* the games collection (by document id).
OlderOrder == <<"g3", "g4", "g5", "g6", "g7", "g8", "g9">>
OlderIds == {OlderOrder[i] : i \in 1 .. OlderGames}
GameOrder == <<"g1", "g2">> \o OlderOrder

\* games.push({ id: doc.id, ...doc.data() })
FeedEntry(g, d) ==
  [id |-> g, layout |-> d.layout, createdAt |-> d.createdAt,
   creatorId |-> d.creatorId, participantCount |-> d.participantCount]

\* orderBy('createdAt', 'desc'): entry a comes before entry b. A createdAt
\* that is a pending serverTimestamp() (read as null = 0) orders after every
\* timestamp, so first in descending order.
Newer(a, b) == b.createdAt # 0 /\ (a.createdAt = 0 \/ a.createdAt > b.createdAt)

RECURSIVE InsertRecent(_, _)
InsertRecent(sorted, x) ==
  IF sorted = <<>> THEN <<x>>
  ELSE IF Newer(x, Head(sorted)) THEN <<x>> \o sorted
       ELSE <<Head(sorted)>> \o InsertRecent(Tail(sorted), x)

\* The games collection as a client with queue wq sees it, ordered by
\* createdAt descending; k runs over the document order.
RECURSIVE OrderedGames(_, _, _, _)
OrderedGames(srv, wq, k, acc) ==
  IF k > Len(GameOrder) THEN acc
  ELSE LET g == GameOrder[k]
           d == IF g \in DOMAIN srv THEN ViewGame(srv, wq, g) ELSE NoGame
       IN  OrderedGames(srv, wq, k + 1,
                        IF d.exists THEN InsertRecent(acc, FeedEntry(g, d)) ELSE acc)

\* A mutant of RecentQuery: the query has no limit.
RecentQueryNoLimit(srv, wq) == OrderedGames(srv, wq, 1, <<>>)

\* query(collection(games), orderBy('createdAt', 'desc'), limit(6))
RecentQuery(srv, wq) ==
  LET all == OrderedGames(srv, wq, 1, <<>>)
  IN  SubSeq(all, 1, Min(RecentLimit, Len(all)))

\* arr.join(sep)
RECURSIVE JoinWith(_, _)
JoinWith(arr, sep) ==
  IF arr = <<>> THEN ""
  ELSE IF Len(arr) = 1 THEN arr[1]
       ELSE arr[1] \o sep \o JoinWith(Tail(arr), sep)

\* g.layout.filter(x => x): null is the only falsy cell, an item is a
\* non-empty string.
Truthy(lay) == Filter(lay, Range(lay) \ {Gap})

\* A mutant of PreviewText: the marker is appended whatever the item count.
PreviewTextAlwaysMarked(g) ==
  IF "layout" \in DOMAIN g
  THEN JoinWith(SubSeq(Truthy(g.layout), 1, Min(PreviewItems, Len(Truthy(g.layout)))), ", ")
         \o "..."
  ELSE "Empty Board"

\* const previewText = g.layout ? g.layout.filter(x => x).slice(0, 3).join(', ')
\*   + (g.layout.filter(x => x).length > 3 ? '...' : '') : 'Empty Board'
PreviewText(g) ==
  IF "layout" \in DOMAIN g
  THEN JoinWith(SubSeq(Truthy(g.layout), 1, Min(PreviewItems, Len(Truthy(g.layout)))), ", ")
         \o (IF Len(Truthy(g.layout)) > PreviewItems THEN "..." ELSE "")
  ELSE "Empty Board"

\* The onSnapshot callback of the recent games query: setRecentGames(games),
\* and the home view renders recentGames.map(g => previewText).
RecentSnapshot(c) ==
  /\ recentSub[c].active
  /\ LET snap == RecentQuery(games, writes[c])
     IN  /\ ~recentSub[c].delivered \/ snap # recentGames[c]
         /\ recentGames' = [recentGames EXCEPT ![c] = snap]
         /\ previewText' = [previewText EXCEPT ![c] =
              [i \in 1 .. Len(snap) |-> PreviewText(snap[i])]]
  /\ recentSub' = [recentSub EXCEPT ![c].delivered = TRUE]
  /\ UNCHANGED <<ops, storeVars, user, view, gameId, inputList, shuffleRun, isCreating,
                 gameData, participants, myParticipantData, newName, isEditingName,
                 errorMsg, gameSub, partsSub, reads, writes>>

\* Home: onClick={() => { setGameId(g.id); setView('play'); }} on the i-th
\* recent game (one of the games the model follows).
ClickRecent(c, i) ==
  /\ Connected(c) /\ view[c] = "home"
  /\ i \in 1 .. Len(recentGames[c])
  /\ recentGames[c][i].id \in GameIds
  /\ gameId' = [gameId EXCEPT ![c] = recentGames[c][i].id]
  /\ view' = [view EXCEPT ![c] = "play"]
  /\ UNCHANGED <<ops, storeVars, user, inputList, recentGames, shuffleRun, previewText, isCreating, gameData,
                 participants, myParticipantData, newName, isEditingName,
                 errorMsg, writes>>
  /\ RecentEffect(c)
  /\ GameEffect(c)
  /\ PartEffect(c, FALSE)

\* A store that holds game g1 and OlderGames games created before it, every
\* one of them by a client that left before joining.
InitFeed ==
  /\ games = [g \in GameIds \cup OlderIds |->
       IF g = "g1"
       THEN [exists |-> TRUE, layout |-> SessionLayout, createdAt |-> OlderGames + 1,
             creatorId |-> "u1", participantCount |-> 0]
       ELSE IF g \in OlderIds
       THEN [exists |-> TRUE, layout |-> SessionLayout,
             createdAt |-> CHOOSE i \in 1 .. OlderGames : OlderOrder[i] = g,
             creatorId |-> "u2", participantCount |-> 0]
       ELSE NoGame]
  /\ parts = [g \in GameIds \cup OlderIds |-> [u \in Uids |-> NoPart]]
  /\ clock = OlderGames + 1
  /\ user = [c \in Clients |-> ""]
  /\ view = [c \in Clients |-> "home"]
  /\ gameId = [c \in Clients |-> ""]
  /\ inputList = [c \in Clients |-> <<>>]
  /\ recentGames = [c \in Clients |-> <<>>]
  /\ shuffleRun = NoShuffle
  /\ previewText = [c \in Clients |-> <<>>]
  /\ isCreating = [c \in Clients |-> FALSE]
  /\ gameData = [c \in Clients |-> NoGame]
  /\ participants = [c \in Clients |-> <<>>]
  /\ myParticipantData = [c \in Clients |-> NoPart]
  /\ newName = [c \in Clients |-> ""]
  /\ isEditingName = [c \in Clients |-> FALSE]
  /\ errorMsg = [c \in Clients |-> ""]
  /\ recentSub = [c \in Clients |-> [active |-> TRUE, delivered |-> FALSE]]
  /\ gameSub = [c \in Clients |-> NoGameSub]
  /\ partsSub = [c \in Clients |-> NoPartsSub]
  /\ reads = [c \in Clients |-> [k \in ReadKeys |-> 0]]
  /\ writes = [c \in Clients |-> <<>>]
  /\ ops = 0

\* Two clients in front of the recent games: client c1 creates games, client
\* c2 enters a game by clicking it, both watch the feed.
NextFeed ==
  \/ \E c \in Clients :
       \/ AuthStateChanged(c, DistinctIds[c])
       \/ RecentSnapshot(c)
       \/ StoreStepOneName(c)
  \/ CreateStep("c1")
  \/ \E i \in 1 .. RecentLimit : ClickRecent("c2", i)

SpecFeed == InitFeed /\ [][NextFeed]_vars

\* The layout handleCreateGame's layout code builds from the first n items of
\* the pool, for item counts on both sides of the preview's length.
PreviewLayout(n, stream) == GenerateLayout(SubSeq(ItemPool, 1, n), stream)

\* A store whose older games hold layouts of 0, 1, ... items, the i-th oldest
\* one of i - 1 items, under the game of the session, of MinItems items.
InitPreview ==
  /\ \E stream \in SyncStreams :
       games = [g \in GameIds \cup OlderIds |->
         IF g = "g1"
         THEN [exists |-> TRUE, layout |-> SessionLayout, createdAt |-> OlderGames + 1,
               creatorId |-> "u1", participantCount |-> 0]
         ELSE IF g \in OlderIds
         THEN LET i == CHOOSE j \in 1 .. OlderGames : OlderOrder[j] = g
              IN  [exists |-> TRUE, layout |-> PreviewLayout(i - 1, stream),
                   createdAt |-> i, creatorId |-> "u2", participantCount |-> 0]
         ELSE NoGame]
  /\ parts = [g \in GameIds \cup OlderIds |-> [u \in Uids |-> NoPart]]
  /\ clock = OlderGames + 1
  /\ user = [c \in Clients |-> ""]
  /\ view = [c \in Clients |-> "home"]
  /\ gameId = [c \in Clients |-> ""]
  /\ inputList = [c \in Clients |-> <<>>]
  /\ recentGames = [c \in Clients |-> <<>>]
  /\ shuffleRun = NoShuffle
  /\ previewText = [c \in Clients |-> <<>>]
  /\ isCreating = [c \in Clients |-> FALSE]
  /\ gameData = [c \in Clients |-> NoGame]
  /\ participants = [c \in Clients |-> <<>>]
  /\ myParticipantData = [c \in Clients |-> NoPart]
  /\ newName = [c \in Clients |-> ""]
  /\ isEditingName = [c \in Clients |-> FALSE]
  /\ errorMsg = [c \in Clients |-> ""]
  /\ recentSub = [c \in Clients |-> [active |-> TRUE, delivered |-> FALSE]]
  /\ gameSub = [c \in Clients |-> NoGameSub]
  /\ partsSub = [c \in Clients |-> NoPartsSub]
  /\ reads = [c \in Clients |-> [k \in ReadKeys |-> 0]]
  /\ writes = [c \in Clients |-> <<>>]
  /\ ops = 0

\* Two clients watching the recent games while client c1 creates a game.
NextPreview ==
  \/ \E c \in Clients :
       \/ AuthStateChanged(c, DistinctIds[c])
       \/ RecentSnapshot(c)
       \/ StoreStepOneName(c)
  \/ CreateStep("c1")

SpecPreview == InitPreview /\ [][NextPreview]_vars

\* One client creating a game from an empty store, over every text size and
\* every periodic sequence of draws.
NextLayout ==
  \E c \in {"c1"} :
    \/ AuthStateChanged(c, DistinctIds[c])
    \/ GoCreate(c)
    \/ CancelCreate(c)
    \/ \E text \in LayoutTexts : TypeInput(c, text)
    \/ \E stream \in LayoutStreams : HandleCreateGame(c, stream)
    \/ Land(c)
    \/ CreateFails(c)

SpecLayout == Init /\ [][NextLayout]_vars

\* The store after the two clients of Spec have joined game g1, u1 first, and
\* every write and snapshot of the joins has been delivered.
JoinedName == generateFunnyName(<<0>>)

JoinedPart(u, ts) ==
  [exists |-> TRUE, has |-> PartFields, name |-> JoinedName,
   checkedIndices |-> <<>>, userId |-> u, lastActive |-> ts]

InitJoined ==
  /\ games = [g \in GameIds |->
       IF g = "g1"
       THEN [exists |-> TRUE, layout |-> SessionLayout, createdAt |-> 1,
             creatorId |-> "u1", participantCount |-> 2]
       ELSE NoGame]
  /\ parts = [g \in GameIds |-> [u \in Uids |->
       IF g = "g1" THEN JoinedPart(u, IF u = "u1" THEN 2 ELSE 3) ELSE NoPart]]
  /\ clock = 3
  /\ user = DistinctIds
  /\ view = [c \in Clients |-> "play"]
  /\ gameId = [c \in Clients |-> "g1"]
  /\ inputList = [c \in Clients |-> <<>>]
  /\ recentGames = [c \in Clients |-> <<>>]
  /\ shuffleRun = NoShuffle
  /\ previewText = [c \in Clients |-> <<>>]
  /\ isCreating = [c \in Clients |-> FALSE]
  /\ gameData = [c \in Clients |-> games["g1"]]
  /\ participants = [c \in Clients |-> <<JoinedPart("u2", 3), JoinedPart("u1", 2)>>]
  /\ myParticipantData = [c \in Clients |-> parts["g1"][DistinctIds[c]]]
  /\ newName = [c \in Clients |-> JoinedName]
  /\ isEditingName = [c \in Clients |-> FALSE]
  /\ errorMsg = [c \in Clients |-> ""]
  /\ recentSub = [c \in Clients |-> NoRecentSub]
  /\ gameSub = [c \in Clients |-> [active |-> TRUE, gid |-> "g1", delivered |-> TRUE]]
  /\ partsSub = [c \in Clients |->
       [active |-> TRUE, gid |-> "g1", uid |-> DistinctIds[c], capEmpty |-> TRUE,
        delivered |-> TRUE]]
  /\ reads = [c \in Clients |-> [k \in ReadKeys |-> 0]]
  /\ writes = [c \in Clients |-> <<>>]
  /\ ops = 0

\* The store once the joins are done: participant writes reaching the server
\* and participant snapshots reaching the clients.
PresenceStore(c) == Land(c) \/ PartsSnapshot(c)

\* Two joined participants toggling cells and renaming themselves.
NextPresence ==
  \E c \in Clients :
    \/ PresenceStore(c)
    \/ \E index \in TabToggleInputs : ops < PresenceOps /\ ToggleCell(c, index)
    \/ StartEditName(c)
    \/ \E n \in TypedNames : TypeNewName(c, n)
    \/ ops < PresenceOps /\ UpdateName(c)

SpecPresence == InitJoined /\ [][NextPresence]_vars

FairPresence == SpecPresence /\ \A c \in Clients : WF_vars(PresenceStore(c))

\* The cells the two tabs click in SpecMarks: two items of the session's layout.
ItemToggleInputs == {0, 1}

\* The store after two tabs of identity u1 have joined game g1: the first
\* created the record, the second found it, and every write and snapshot has
\* been delivered.
InitJoinedTabs ==
  /\ games = [g \in GameIds |->
       IF g = "g1"
       THEN [exists |-> TRUE, layout |-> SessionLayout, createdAt |-> 1,
             creatorId |-> "u1", participantCount |-> 1]
       ELSE NoGame]
  /\ parts = [g \in GameIds |-> [u \in Uids |->
       IF g = "g1" /\ u = "u1" THEN JoinedPart(u, 2) ELSE NoPart]]
  /\ clock = 2
  /\ user = SameIds
  /\ view = [c \in Clients |-> "play"]
  /\ gameId = [c \in Clients |-> "g1"]
  /\ inputList = [c \in Clients |-> <<>>]
  /\ recentGames = [c \in Clients |-> <<>>]
  /\ shuffleRun = NoShuffle
  /\ previewText = [c \in Clients |-> <<>>]
  /\ isCreating = [c \in Clients |-> FALSE]
  /\ gameData = [c \in Clients |-> games["g1"]]
  /\ participants = [c \in Clients |-> <<JoinedPart("u1", 2)>>]
  /\ myParticipantData = [c \in Clients |-> JoinedPart("u1", 2)]
  /\ newName = [c \in Clients |-> JoinedName]
  /\ isEditingName = [c \in Clients |-> FALSE]
  /\ errorMsg = [c \in Clients |-> ""]
  /\ recentSub = [c \in Clients |-> NoRecentSub]
  /\ gameSub = [c \in Clients |-> [active |-> TRUE, gid |-> "g1", delivered |-> TRUE]]
  /\ partsSub = [c \in Clients |->
       [active |-> TRUE, gid |-> "g1", uid |-> "u1", capEmpty |-> TRUE,
        delivered |-> TRUE]]
  /\ reads = [c \in Clients |-> [k \in ReadKeys |-> 0]]
  /\ writes = [c \in Clients |-> <<>>]
  /\ ops = 0

\* Two joined tabs of one identity marking two item cells.
NextMarks ==
  \E c \in Clients :
    \/ PresenceStore(c)
    \/ \E index \in ItemToggleInputs : ops < PresenceOps /\ ToggleCell(c, index)

SpecMarks == InitJoinedTabs /\ [][NextMarks]_vars

\* Client c1 (u1) has joined game g1 and every write and snapshot of its join
\* has been delivered; client c2 has just been opened.
InitOwners ==
  /\ games = [g \in GameIds |->
       IF g = "g1"
       THEN [exists |-> TRUE, layout |-> SessionLayout, createdAt |-> 1,
             creatorId |-> "u1", participantCount |-> 1]
       ELSE NoGame]
  /\ parts = [g \in GameIds |-> [u \in Uids |->
       IF g = "g1" /\ u = "u1" THEN JoinedPart(u, 2) ELSE NoPart]]
  /\ clock = 2
  /\ user = [c \in Clients |-> IF c = "c1" THEN "u1" ELSE ""]
  /\ view = [c \in Clients |-> IF c = "c1" THEN "play" ELSE "home"]
  /\ gameId = [c \in Clients |-> IF c = "c1" THEN "g1" ELSE ""]
  /\ inputList = [c \in Clients |-> <<>>]
  /\ recentGames = [c \in Clients |-> <<>>]
  /\ shuffleRun = NoShuffle
  /\ previewText = [c \in Clients |-> <<>>]
  /\ isCreating = [c \in Clients |-> FALSE]
  /\ gameData = [c \in Clients |-> IF c = "c1" THEN games["g1"] ELSE NoGame]
  /\ participants = [c \in Clients |->
       IF c = "c1" THEN <<JoinedPart("u1", 2)>> ELSE <<>>]
  /\ myParticipantData = [c \in Clients |->
       IF c = "c1" THEN JoinedPart("u1", 2) ELSE NoPart]
  /\ newName = [c \in Clients |-> IF c = "c1" THEN JoinedName ELSE ""]
  /\ isEditingName = [c \in Clients |-> FALSE]
  /\ errorMsg = [c \in Clients |-> ""]
  /\ recentSub = [c \in Clients |->
       IF c = "c1" THEN NoRecentSub ELSE [active |-> TRUE, delivered |-> FALSE]]
  /\ gameSub = [c \in Clients |->
       IF c = "c1" THEN [active |-> TRUE, gid |-> "g1", delivered |-> TRUE]
       ELSE NoGameSub]
  /\ partsSub = [c \in Clients |->
       IF c = "c1"
       THEN [active |-> TRUE, gid |-> "g1", uid |-> "u1", capEmpty |-> TRUE,
             delivered |-> TRUE]
       ELSE NoPartsSub]
  /\ reads = [c \in Clients |-> [k \in ReadKeys |-> 0]]
  /\ writes = [c \in Clients |-> <<>>]
  /\ ops = 0

\* Client c2 (u2) joins game g1 while client c1 marks cells and renames itself.
NextOwners ==
  \/ AuthStateChanged("c2", DistinctIds["c2"])
  \/ TypeGameId("c2", "g1")
  \/ ClickJoin("c2")
  \/ \E c \in Clients : StoreStepOneName(c)
  \/ \E index \in TabToggleInputs : ops < PresenceOps /\ ToggleCell("c1", index)
  \/ RenameStep("c1")

SpecOwners == InitOwners /\ [][NextOwners]_vars

\* ------------------------------------------------------------ the claims
\* Every issued write has reached the server and no read is in flight.
Quiescent ==
  \A c \in Clients : writes[c] = <<>> /\ \A key \in ReadKeys : reads[c][key] = 0

\* The participant records of game g on the server.
Records(g) == {u \in Uids : parts[g][u].exists}

\* The positions of queue wq that hold a write `op` of game g.
QueuedOps(wq, op, g) == {i \in 1 .. Len(wq) : wq[i].op = op /\ wq[i].gid = g}

\* This step resolves the read `key` of client c.
Resolves(c, key) == reads[c][key] > 0 /\ reads'[c][key] = reads[c][key] - 1

\* This step appends to the queue of client c the create of record key with
\* an empty marked set, then one increment of the game's counter.
IssuesJoin(c, key) ==
  /\ Len(writes'[c]) = Len(writes[c]) + 2
  /\ SubSeq(writes'[c], 1, Len(writes[c])) = writes[c]
  /\ LET w1 == writes'[c][Len(writes[c]) + 1]
         w2 == writes'[c][Len(writes[c]) + 2]
     IN  /\ w1.op = "createPart" /\ w1.gid = key.gid /\ w1.uid = key.uid
         /\ ApplyPart(NoPart, w1, 0).checkedIndices = <<>>
         /\ ApplyPart(NoPart, w1, 0).userId = key.uid
         /\ w2.op = "increment" /\ w2.gid = key.gid

\* C1: with one client, a join that finds no record of its identity issues
\* exactly one create of the record, keyed by the identity and with an empty
\* marked set, and exactly one increment of participantCount; a join that
\* runs once the record exists issues no write; a read issued after the
\* client's own create always finds the record; and when they reach the store
\* the create writes the record with an empty marked set and the increment
\* raises participantCount by exactly 1.
C1_JoinOnceThenNoOp ==
  /\ [](\A c \in Clients : \A key \in ReadKeys :
          (reads[c][key] > 0 /\ key.hit)
            => (QueuedPart(writes[c], key.gid, key.uid) \/ parts[key.gid][key.uid].exists))
  /\ [][\A c \in Clients : \A key \in ReadKeys :
          Resolves(c, key) =>
            IF ~key.hit /\ ~parts[key.gid][key.uid].exists
            THEN IssuesJoin(c, key)
            ELSE writes' = writes /\ parts' = parts /\ games' = games]_vars
  /\ [][\A c \in Clients :
          (writes[c] # <<>> /\ writes'[c] = Tail(writes[c])) =>
            LET w == writes[c][1]
            IN  /\ w.op = "createPart" =>
                     /\ parts'[w.gid][w.uid].exists
                     /\ parts'[w.gid][w.uid].checkedIndices = <<>>
                     /\ parts'[w.gid][w.uid].userId = w.uid
                /\ w.op = "increment" =>
                     games'[w.gid].participantCount
                       = games[w.gid].participantCount + 1]_vars

\* C1 witness: the client has joined game g1 (record with an empty marked
\* set, counter 1), has seen the counter and its later join has resolved.
C1_Witness ==
  /\ Quiescent
  /\ parts["g1"]["u1"].exists /\ parts["g1"]["u1"].checkedIndices = <<>>
  /\ games["g1"].participantCount = 1
  /\ gameData["c1"].exists /\ gameData["c1"].participantCount = 1
  /\ partsSub["c1"].delivered

\* C2: the join is a check-then-act that is not atomic: a join that read the
\* record as absent issues its create and its increment even while another
\* client of the same identity has its own create queued, so that once all
\* writes have landed participantCount is at least, and may exceed, the
\* number of records.
C2_JoinNotAtomic ==
  /\ [](Quiescent => \A g \in GameIds :
          games[g].participantCount >= Cardinality(Records(g)))
  /\ [][\A c \in Clients : \A key \in ReadKeys :
          (/\ Resolves(c, key)
           /\ ~key.hit /\ ~parts[key.gid][key.uid].exists
           /\ \E d \in Clients \ {c} : QueuedPart(writes[d], key.gid, key.uid))
            => IssuesJoin(c, key)]_vars

\* C2 witness: both tabs have joined, every write has landed, and the counter
\* exceeds the number of records.
C2_Witness ==
  /\ Quiescent
  /\ \A c \in Clients : myParticipantData[c].exists
  /\ games["g1"].participantCount > Cardinality(Records("g1"))

\* C3: a client never has two creates of its participant record of one game
\* under way (the join is started once per observed session).
C3_JoinStartedOnce ==
  \A c \in Clients : \A g \in GameIds :
    Cardinality(QueuedOps(writes[c], "createPart", g)) <= 1

\* C4: once every write of the first joins of distinct identities has landed,
\* participantCount equals the number of participant records.
C4_CountEqualsRecords ==
  Quiescent => \A g \in GameIds :
    games[g].participantCount = Cardinality(Records(g))

\* Client c has an identity and is in the play view of game g, whose
\* document exists.
Playing(c, g) ==
  user[c] # "" /\ view[c] = "play" /\ gameId[c] = g /\ games[g].exists

\* C5: every client that has an identity and is in the play view of a game
\* whose document exists eventually has a participant record keyed by its
\* identity in that game, and a participant record is never deleted.
C5_EventuallyJoined ==
  /\ \A c \in Clients : \A g \in GameIds : \A u \in Uids :
       (Playing(c, g) /\ user[c] = u) ~> parts[g][u].exists
  /\ [][\A g \in GameIds : \A u \in Uids :
          parts[g][u].exists => parts'[g][u].exists]_vars

\* Cell index of game g's stored layout holds an item.
IsItemCell(g, index) ==
  /\ games[g].exists /\ index \in 0 .. (TOTAL_CELLS - 1)
  /\ games[g].layout[index + 1] # Gap

\* C6: two toggles of the same item cell issued in succession by a joined
\* participant return the stored marked set to the value it had before the
\* first of them (and both carry a server timestamp): when the two writes are
\* at the head of the client's queue and the stored set is still the one the
\* first call found, the second write carries that set.
C6_ToggleTwiceRestores ==
  \A c \in Clients :
    Len(writes[c]) >= 2 =>
      LET w1 == writes[c][1]
          w2 == writes[c][2]
          p  == parts[w1.gid][w1.uid]
      IN  (/\ w1.op = "toggle" /\ w2.op = "toggle"
           /\ w1.gid = w2.gid /\ w1.uid = w2.uid /\ w1.index = w2.index
           /\ p.exists /\ "userId" \in p.has
           /\ IsItemCell(w1.gid, w1.index)
           /\ w1.pre = p.checkedIndices)
            => /\ Range(w2.checks) = Range(p.checkedIndices)
               /\ HasTimestamp(w1) /\ HasTimestamp(w2)

\* This step applies the head of client c's queue, a toggle write, to the store.
LandsToggle(c) ==
  /\ writes[c] # <<>> /\ writes[c][1].op = "toggle"
  /\ writes'[c] = Tail(writes[c])

\* C7: when the write of a toggle of item cell i by a joined participant is
\* applied, i is absent from the stored marked set if it was in it immediately
\* before and present otherwise, and lastActive becomes the server time.
C7_ToggleFlipsStored ==
  [][\A c \in Clients :
       LET w == writes[c][1]
       IN  (/\ LandsToggle(c)
            /\ parts[w.gid][w.uid].exists /\ "userId" \in parts[w.gid][w.uid].has
            /\ IsItemCell(w.gid, w.index))
             => /\ (w.index \in Range(parts[w.gid][w.uid].checkedIndices))
                     # (w.index \in Range(parts'[w.gid][w.uid].checkedIndices))
                /\ parts'[w.gid][w.uid].lastActive = clock']_vars

\* This step queues a toggle write of client c.
IssuesToggle(c) ==
  /\ Len(writes'[c]) = Len(writes[c]) + 1
  /\ writes'[c][Len(writes'[c])].op = "toggle"

\* C8: a toggle issues no write when the cell is a gap of the game's layout,
\* nor while the client's participant record of the game does not exist yet
\* (so that the client cannot have observed it).
C8_NoWriteOnGap ==
  [][\A c \in Clients :
       IssuesToggle(c) =>
         LET w == writes'[c][Len(writes'[c])]
         IN  /\ IsItemCell(w.gid, w.index)
             /\ parts[w.gid][w.uid].exists \/ QueuedPart(writes[c], w.gid, w.uid)]_vars

\* C9: the checkedIndices of every participant record are cell indices
\* 0..23 whose slot in the game's layout is an item, each at most once.
C9_ChecksAreItemCells ==
  \A g \in GameIds : \A u \in Uids :
    parts[g][u].exists =>
      LET checks == parts[g][u].checkedIndices
      IN  /\ \A k \in 1 .. Len(checks) : IsItemCell(g, checks[k])
          /\ Cardinality(Range(checks)) = Len(checks)

\* The number of slots of layout that hold x.
CountOf(layout, x) == Cardinality({i \in 1 .. Len(layout) : layout[i] = x})

\* This step queues the game document handleCreateGame built for client c.
CreatesGame(c) ==
  /\ Len(writes'[c]) = Len(writes[c]) + 1
  /\ writes'[c][Len(writes'[c])].op = "createGame"

\* C10: the layout generated from n valid items has exactly 24 slots, n of
\* them items and 24 - n gaps, and holds every input item in exactly one slot.
C10_LayoutKeepsItems ==
  [][\A c \in Clients :
       CreatesGame(c) =>
         LET items  == ItemsOf(inputList[c])
             layout == writes'[c][Len(writes'[c])].layout
             n      == Len(items)
         IN  /\ Len(layout) = TOTAL_CELLS
             /\ CountOf(layout, Gap) = TOTAL_CELLS - n
             /\ Cardinality({i \in 1 .. Len(layout) : layout[i] # Gap}) = n
             /\ \A k \in 1 .. n : CountOf(layout, items[k]) = 1]_vars

\* C10 witness: a game generated from the largest valid text is on the server.
C10_Witness ==
  /\ games["g1"].exists
  /\ CountOf(games["g1"].layout, Gap) = TOTAL_CELLS - MaxItems
  /\ view["c1"] = "play"

\* The number of items in row r (slots 6r .. 6r+5) of layout.
RowItems(layout, r) ==
  Cardinality({i \in (COLS * r + 1) .. (COLS * r + COLS) :
                 i <= Len(layout) /\ layout[i] # Gap})

\* C11: the layout generated from n valid items has 4 rows of exactly 6
\* slots, each row holding floor(n/4) or ceil(n/4) items, so that two rows
\* differ by at most one item; 10 items give 2 or 3 items in every row and 20
\* items give exactly one gap in every row.
C11_RowsBalanced ==
  [][\A c \in Clients :
       CreatesGame(c) =>
         LET layout == writes'[c][Len(writes'[c])].layout
             n      == Len(ItemsOf(inputList[c]))
         IN  /\ Len(layout) = ROWS * COLS
             /\ \A r \in 0 .. (ROWS - 1) :
                  /\ RowItems(layout, r) \in {n \div ROWS, (n + ROWS - 1) \div ROWS}
                  /\ n = MinItems => RowItems(layout, r) \in {2, 3}
                  /\ n = MaxItems => RowItems(layout, r) = COLS - 1
             /\ \A r1, r2 \in 0 .. (ROWS - 1) :
                  RowItems(layout, r1) - RowItems(layout, r2) <= 1]_vars

\* C11 witness: a game generated from the smallest valid text is on the
\* server, with rows of 2 and of 3 items.
C11_Witness ==
  /\ games["g1"].exists
  /\ CountOf(games["g1"].layout, Gap) = TOTAL_CELLS - MinItems
  /\ \E r1, r2 \in 0 .. (ROWS - 1) :
       RowItems(games["g1"].layout, r1) = 2 /\ RowItems(games["g1"].layout, r2) = 3

\* C12: a creation request with fewer than 10 or more than 20 non-blank
\* lines is rejected before a layout is generated: while the create view
\* holds such a text and no creation is under way, no step queues a write,
\* writes a game document, changes gameId, sets the creating flag or enters
\* the play view; and every game document that is queued comes from a text of
\* 10 to 20 non-blank lines.
C12_InvalidInputRejected ==
  [][\A c \in Clients :
       /\ (/\ view[c] = "create" /\ ~isCreating[c]
           /\ Len(ItemsOf(inputList[c])) \notin MinItems .. MaxItems)
            => /\ writes'[c] = writes[c]
               /\ games' = games
               /\ gameId'[c] = gameId[c]
               /\ isCreating'[c] = FALSE
               /\ view'[c] \in {"create", "home"}
       /\ CreatesGame(c) => Len(ItemsOf(inputList[c])) \in MinItems .. MaxItems]_vars

\* C12 witness: the create view holds a text of 21 non-blank lines, no
\* creation is under way and nothing has been written or adopted.
C12_Witness ==
  /\ view["c1"] = "create" /\ ~isCreating["c1"]
  /\ Len(ItemsOf(inputList["c1"])) = MaxItems + 1
  /\ writes["c1"] = <<>> /\ gameId["c1"] = ""
  /\ \A g \in GameIds : ~games[g].exists

\* The recency a record is ordered by: its lastActive, the minimum when it
\* has none (a timestamp not yet set by the server reads as none).
RecencyOf(p) == IF "lastActive" \in p.has THEN p.lastActive ELSE 0

\* list is ordered by recency, most recent first.
RecencyDescending(list) ==
  \A i, j \in 1 .. Len(list) : i < j => RecencyOf(list[i]) >= RecencyOf(list[j])

\* The participant documents of game g that client c's listeners are given
\* once this step is done.
SnapshotDocs(c, g) ==
  {ViewParts(parts', writes'[c], g)[u] :
     u \in {x \in Uids : ViewParts(parts', writes'[c], g)[x].exists}}

\* This step runs the participant-collection callback of client c.
ReceivesParts(c) ==
  /\ partsSub[c].active
  /\ \/ participants'[c] # participants[c]
     \/ ~partsSub[c].delivered /\ partsSub'[c].delivered

\* C13: after every participant-collection snapshot a client receives, the
\* displayed sequence holds exactly the records of the snapshot, each once,
\* ordered by lastActive descending with a record that has no lastActive
\* ordered as the oldest.
C13_DisplayedIsSortedSnapshot ==
  [][\A c \in Clients :
       ReceivesParts(c) =>
         /\ Range(participants'[c]) = SnapshotDocs(c, partsSub[c].gid)
         /\ Len(participants'[c]) = Cardinality(SnapshotDocs(c, partsSub[c].gid))
         /\ RecencyDescending(participants'[c])]_vars

\* C13 witness: a client displays [B, A], B (second in document order) with
\* the greater lastActive.
C13_Witness ==
  \E c \in Clients :
    /\ Len(participants[c]) = 2
    /\ participants[c][1].userId = "u2" /\ participants[c][2].userId = "u1"
    /\ participants[c][1].lastActive > participants[c][2].lastActive
    /\ participants[c][2].lastActive > 0

\* This step queues a toggle or a rename of client c's participant record.
IssuesOwnWrite(c) ==
  /\ Len(writes'[c]) = Len(writes[c]) + 1
  /\ writes'[c][Len(writes'[c])].op \in {"toggle", "rename"}

\* The record displayed first by client c after this step is that of u.
FirstIs(c, u) ==
  /\ participants'[c] # <<>>
  /\ "userId" \in participants'[c][1].has
  /\ participants'[c][1].userId = u

\* C14: a participant whose lastActive has just advanced (an item-cell toggle
\* or an accepted rename) is first in the next ordering every subscriber
\* computes: first in the acting client's own ordering computed from the
\* snapshot that reflects the write, and first in the ordering any subscriber
\* computes while that participant's stored lastActive is the latest.
C14_ActorMovesToFront ==
  [][\A c \in Clients :
       /\ (/\ IssuesOwnWrite(c)
           /\ partsSub[c].active /\ partsSub[c].delivered
           /\ partsSub[c].gid = gameId[c] /\ partsSub[c].uid = user[c])
            => FirstIs(c, user[c])
       /\ (ReceivesParts(c) /\ writes' = writes) =>
            \A u \in Uids :
              (/\ parts[partsSub[c].gid][u].exists
               /\ "userId" \in parts[partsSub[c].gid][u].has
               /\ parts[partsSub[c].gid][u].lastActive = clock)
                => FirstIs(c, u)]_vars

\* Client c displays the stored record of every participant of the game it
\* is subscribed to, and nothing else.
DisplaysStored(c) ==
  LET g == partsSub[c].gid
  IN  /\ Range(participants[c]) = {parts[g][u] : u \in Records(g)}
      /\ Len(participants[c]) = Cardinality(Records(g))

\* C15: every toggle and rename a participant writes to its record is
\* eventually observed by every subscriber of the game's participant
\* collection: once no further write is made, every subscriber's displayed
\* records equal the stored records from some point on.
C15_WritesEventuallyObserved ==
  <>[](\A c \in Clients : partsSub[c].active => DisplaysStored(c))

\* C15 witness: u1's toggle and u2's rename have reached the server and the
\* other client displays each of them as stored.
C15_Witness ==
  /\ Quiescent
  /\ parts["g1"]["u1"].checkedIndices = <<0>>
  /\ parts["g1"]["u2"].name = "Zed"
  /\ \A c \in Clients : partsSub[c].active /\ DisplaysStored(c)

\* This step applies the head of client c's queue, a write `op`, to the store.
LandsOp(c, op) ==
  /\ writes[c] # <<>> /\ writes[c][1].op = op
  /\ writes'[c] = Tail(writes[c])

\* C16: a rename with an empty or blank name issues no write (the rejected
\* call is a step that changes nothing); an accepted rename sets the stored name to the typed one and
\* lastActive to the server time and leaves checkedIndices and userId as they
\* were; a toggle leaves name and userId as they were.
C16_RenameAndToggleFrames ==
  [][\A c \in Clients :
       /\ (IssuesOwnWrite(c) /\ writes'[c][Len(writes'[c])].op = "rename")
            => /\ ~IsBlank(newName[c])
               /\ writes'[c][Len(writes'[c])].name = newName[c]
       /\ (view[c] = "play" /\ isEditingName[c] /\ IsBlank(newName[c]))
            => ~(IssuesOwnWrite(c) /\ writes'[c][Len(writes'[c])].op = "rename")
       /\ LandsOp(c, "rename") =>
            LET w == writes[c][1]
            IN  /\ parts'[w.gid][w.uid].name = w.name /\ ~IsBlank(w.name)
                /\ parts'[w.gid][w.uid].lastActive = clock'
                /\ clock' > parts[w.gid][w.uid].lastActive
                /\ parts'[w.gid][w.uid].checkedIndices = parts[w.gid][w.uid].checkedIndices
                /\ parts'[w.gid][w.uid].userId = parts[w.gid][w.uid].userId
       /\ LandsOp(c, "toggle") =>
            LET w == writes[c][1]
            IN  /\ parts'[w.gid][w.uid].name = parts[w.gid][w.uid].name
                /\ parts'[w.gid][w.uid].userId = parts[w.gid][w.uid].userId]_vars

\* C16 witness: u1 has marked cell 0 and then renamed itself, the stored
\* record holds the new name with its marks and userId, and the other client
\* is editing a blank name.
C16_Witness ==
  /\ Quiescent
  /\ parts["g1"]["u1"].name = "Zed"
  /\ parts["g1"]["u1"].checkedIndices = <<0>>
  /\ parts["g1"]["u1"].userId = "u1"
  /\ parts["g1"]["u1"].lastActive = clock
  /\ isEditingName["c2"] /\ newName["c2"] = " "

\* C17: once a game document exists, no step changes its layout, createdAt
\* or creatorId, and it is never removed; its participantCount is 0 when the
\* document is created and afterwards only stays or grows by one.
C17_GameImmutableButCount ==
  [][\A g \in GameIds :
       /\ games[g].exists =>
            /\ games'[g].exists
            /\ games'[g].layout = games[g].layout
            /\ games'[g].createdAt = games[g].createdAt
            /\ games'[g].creatorId = games[g].creatorId
            /\ games'[g].participantCount \in
                 {games[g].participantCount, games[g].participantCount + 1}
       /\ (~games[g].exists /\ games'[g].exists) =>
            /\ games'[g].participantCount = 0
            /\ games'[g].createdAt = clock']_vars

\* C17 witness: client c1 created game g2 and then joined it: the document
\* holds the layout and creator it was created with and a count of one.
C17_Witness ==
  /\ Quiescent
  /\ games["g2"].exists
  /\ games["g2"].creatorId = "u1"
  /\ games["g2"].createdAt > 0 /\ games["g2"].createdAt < clock
  /\ Len(games["g2"].layout) = TOTAL_CELLS
  /\ games["g2"].participantCount = 1
  /\ Records("g2") = {"u1"}

ErrorBanner(c) ==
  IF view[c] = "play" /\ ~gameData[c].exists THEN errorMsg[c] ELSE ""

\* C19: in the play view a client whose game listener has delivered no
\* snapshot yet shows "Loading Game..." and no error, and a client whose last
\* snapshot reported no document shows "Game not found.".
C19_LoadingShowsNoError ==
  \A c \in Clients :
    /\ (gameSub[c].active /\ ~gameSub[c].delivered) => ErrorBanner(c) = ""
    /\ (gameSub[c].active /\ gameSub[c].delivered /\ ~gameData[c].exists)
         => ErrorBanner(c) = "Game not found."

\* This step is the store rejecting client c's creation write.
CreationRejected(c) ==
  /\ writes[c] # <<>> /\ writes[c][1].op = "createGame"
  /\ writes'[c] = Tail(writes[c])
  /\ ~games'[writes[c][1].gid].exists

\* What a rejected creation leaves alone: the view, the game id and the store;
\* the creating flag is cleared, errorMsg is set and the write is not queued
\* again. A client goes from create to play only as its creation write lands.
CreateFailureLeavesClient ==
  [][\A c \in Clients :
       /\ CreationRejected(c) =>
            /\ view'[c] = view[c] /\ gameId'[c] = gameId[c]
            /\ ~isCreating'[c]
            /\ errorMsg'[c] # ""
            /\ games' = games /\ parts' = parts
            /\ \A i \in 1 .. Len(writes'[c]) : writes'[c][i].op # "createGame"
       /\ (view[c] = "create" /\ view'[c] = "play") =>
            /\ writes[c] # <<>> /\ writes[c][1].op = "createGame"
            /\ gameId'[c] = writes[c][1].gid
            /\ games'[gameId'[c]].exists]_vars

\* C20: a rejected creation write is surfaced to the user (an error is on
\* screen after the step) and leaves the client where it was: same view, no
\* game id adopted, creating flag cleared, no creation write queued again; a
\* client goes from the create view to the play view only as its creation
\* write lands.
C20_CreateFailureSurfaced ==
  [][\A c \in Clients :
       /\ CreationRejected(c) =>
            /\ ErrorBanner(c)' # ""
            /\ view'[c] = view[c] /\ gameId'[c] = gameId[c]
            /\ ~isCreating'[c]
            /\ \A i \in 1 .. Len(writes'[c]) : writes'[c][i].op # "createGame"
       /\ (view[c] = "create" /\ view'[c] = "play") =>
            /\ writes[c] # <<>> /\ writes[c][1].op = "createGame"
            /\ games'[gameId'[c]].exists]_vars

\* The getDoc(myPartRef) calls of client c that are in flight.
ReadsInFlight(c) == {k \in ReadKeys : reads[c][k] > 0}

\* C21: a client without an identity is in no session flow: it stays in the
\* home view, has queued no write (creation, participant create, increment,
\* toggle, rename), has no participant read in flight and holds neither the
\* game listener nor the participant listener.
C21_NoIdentityNoSession ==
  \A c \in Clients :
    user[c] = "" =>
      /\ view[c] = "home"
      /\ writes[c] = <<>>
      /\ ReadsInFlight(c) = {}
      /\ ~gameSub[c].active /\ ~partsSub[c].active
      /\ ~gameData[c].exists /\ ~myParticipantData[c].exists

\* C21 witness: client c2 has no identity yet while client c1 has joined game
\* g1 and every write of its join has reached the store.
C21_Witness ==
  /\ user["c2"] = "" /\ user["c1"] = "u1"
  /\ Quiescent
  /\ Records("g1") = {"u1"}
  /\ partsSub["c1"].active /\ partsSub["c1"].delivered

\* The games client c's listeners see: the stored ones and the one whose
\* creation c has queued.
VisibleGames(c) == {g \in DOMAIN games : ViewGame(games, writes[c], g).exists}

\* This step delivers a snapshot of the recent games query to client c.
ReceivesFeed(c) ==
  /\ recentSub[c].active /\ recentSub'[c].active
  /\ \/ recentGames'[c] # recentGames[c]
     \/ ~recentSub[c].delivered /\ recentSub'[c].delivered

\* C22: after each snapshot of the recent games query the client, which is in
\* the home view, lists at most 6 games, each once and as the store holds it:
\* as many as there are, up to 6, no listed game older than an unlisted one,
\* in createdAt descending order; the step writes nothing to the store and
\* queues no write.
C22_FeedIsLatestSix ==
  [][\A c \in Clients :
       ReceivesFeed(c) =>
         LET list == recentGames'[c]
             ids  == {list[i].id : i \in 1 .. Len(list)}
             seen(g) == FeedEntry(g, ViewGame(games, writes[c], g))
         IN  /\ view[c] = "home"
             /\ Len(list) <= RecentLimit
             /\ Len(list) = Min(RecentLimit, Cardinality(VisibleGames(c)))
             /\ Cardinality(ids) = Len(list)
             /\ ids \subseteq VisibleGames(c)
             /\ \A i \in 1 .. Len(list) : list[i] = seen(list[i].id)
             /\ \A i, j \in 1 .. Len(list) : i < j => ~Newer(list[j], list[i])
             /\ \A g \in VisibleGames(c) \ ids :
                  \A i \in 1 .. Len(list) : ~Newer(seen(g), list[i])
             /\ writes[c] = <<>> =>
                  \A i \in 1 .. Len(list) : list[i] = FeedEntry(list[i].id, games[list[i].id])
             /\ games' = games /\ parts' = parts /\ clock' = clock
             /\ writes' = writes /\ reads' = reads]_vars

\* C22 witness: the store holds seven games, the newest being g2 created by
\* client c1 and joined by it; client c2, in the home view, lists six of them
\* with g2 first and its count of one, and not the oldest, g3.
C22_Witness ==
  /\ Cardinality({g \in DOMAIN games : games[g].exists}) = RecentLimit + 1
  /\ games["g2"].participantCount = 1
  /\ view["c2"] = "home" /\ recentSub["c2"].delivered
  /\ Len(recentGames["c2"]) = RecentLimit
  /\ recentGames["c2"][1] = FeedEntry("g2", games["g2"])
  /\ \A i \in 1 .. RecentLimit : recentGames["c2"][i].id # "g3"

\* C23: a join write never lands on a participant record that exists: the
\* record's marked set and name are never replaced by the empty set and a
\* generated name.
C23_JoinNeverOverwrites ==
  [][\A c \in Clients :
       LandsOp(c, "createPart") =>
         ~parts[writes[c][1].gid][writes[c][1].uid].exists]_vars

\* C24: when a toggle write of index i is applied, every other index is in
\* the stored marked set after the step exactly if it was in it before.
C24_ToggleChangesOnlyItsIndex ==
  [][\A c \in Clients :
       LandsToggle(c) =>
         LET w == writes[c][1]
         IN  \A j \in 0 .. (TOTAL_CELLS - 1) :
               j # w.index =>
                 ((j \in Range(parts[w.gid][w.uid].checkedIndices))
                    <=> (j \in Range(parts'[w.gid][w.uid].checkedIndices)))]_vars

\* C25: every participant record in the store was created by a join: it has
\* a userId equal to its key, a name and a checkedIndices field; and when no
\* write or read is in flight a game has at most participantCount records.
C25_RecordsComeFromJoins ==
  \A g \in GameIds :
    /\ \A u \in Records(g) :
         /\ {"userId", "name", "checkedIndices"} \subseteq parts[g][u].has
         /\ parts[g][u].userId = u
    /\ Quiescent => Cardinality(Records(g)) <= games[g].participantCount

\* The item of every 0-based position k of `shuffled` is in row k % 4 of
\* `layout`, that is in one of the slots 6 * (k % 4) .. 6 * (k % 4) + 5.
PlacedRoundRobin(shuffled, layout) ==
  \A k \in 0 .. (Len(shuffled) - 1) :
    \E slot \in (COLS * (k % ROWS)) .. (COLS * (k % ROWS) + COLS - 1) :
      layout[slot + 1] = shuffled[k + 1]

\* C26: in the layout of every game that is created, rows 0 to 3 follow one
\* another and the item at position k of the shuffled list is in row k mod 4,
\* whatever the second shuffle did inside the row: this for the draws that
\* gave the layout.
C26_RoundRobinRows ==
  [][\A c \in Clients :
       CreatesGame(c) =>
         LET layout == writes'[c][Len(writes'[c])].layout
             items  == ItemsOf(inputList[c])
         IN  /\ Len(layout) = ROWS * COLS
             /\ \E stream \in LayoutStreams : layout = GenerateLayout(items, stream)
             /\ \A stream \in LayoutStreams :
                  layout = GenerateLayout(items, stream)
                    => PlacedRoundRobin(Shuffle(items, stream, 1), layout)]_vars

\* C26 witness: the stored game g1 was generated from the largest valid text
\* with draws that are not all zero; the first and the fifth item of the
\* shuffled list are both in row 0.
C26_Witness ==
  LET items == ItemsOf(TextOf(MaxItems))
      sh    == Shuffle(items, <<2, 1, 0>>, 1)
  IN  /\ games["g1"].exists
      /\ games["g1"].layout = GenerateLayout(items, <<2, 1, 0>>)
      /\ {sh[1], sh[5]} \subseteq {games["g1"].layout[i] : i \in 1 .. COLS}

RECURSIVE Factorial(_)
Factorial(n) == IF n <= 1 THEN 1 ELSE n * Factorial(n - 1)

\* The results of the shuffle of s over every sequence of choices.
ShuffleResults(s) == {FisherYatesBy(s, Len(s) - 1, js) : js \in ChoiceSeqs(Len(s))}

\* The sequences of choices that turn s into out.
ChoicesGiving(s, out) ==
  {js \in ChoiceSeqs(Len(s)) : FisherYatesBy(s, Len(s) - 1, js) = out}

\* C27 as stated: the order a shuffle produced, of a list of items or of a
\* padded row, is produced by exactly one sequence of choices (the one that
\* was made), and the shuffle of m elements has m! results.
C27_OneChoicePerOrder ==
  shuffleRun.done =>
    /\ ChoicesGiving(shuffleRun.input, shuffleRun.output) = {shuffleRun.picks}
    /\ Cardinality(ShuffleResults(shuffleRun.input)) = Factorial(Len(shuffleRun.input))

\* C27 amended: the result of a shuffle holds the elements of the array, each
\* as often as the array does; an array of m elements of which g are gaps has
\* m!/g! results, and each result is produced by exactly g! sequences of
\* choices: by exactly one when the elements are distinct.
C27_EveryOrderEquallyOften ==
  shuffleRun.done =>
    LET s == shuffleRun.input
        g == CountOf(s, Gap)
    IN  /\ \A x \in Range(s) : CountOf(shuffleRun.output, x) = CountOf(s, x)
        /\ Len(shuffleRun.output) = Len(s)
        /\ shuffleRun.picks \in ChoicesGiving(s, shuffleRun.output)
        /\ Cardinality(ChoicesGiving(s, shuffleRun.output)) = Factorial(g)
        /\ Cardinality(ShuffleResults(s)) * Factorial(g) = Factorial(Len(s))

\* C27 witness: a row of two items and four gaps was shuffled; the choices
\* moved both items and a gap is in the first slot.
C27_Witness ==
  /\ shuffleRun.done
  /\ shuffleRun.input = PadRow(SubSeq(ItemPool, 1, 2))
  /\ shuffleRun.output[1] = Gap
  /\ shuffleRun.output[COLS - 1] = ItemPool[2] /\ shuffleRun.output[COLS] = ItemPool[1]

\* This step starts a getDoc(myPartRef) of client c for game g.
IssuesRead(c, g) ==
  \E key \in ReadKeys : key.gid = g /\ reads'[c][key] > reads[c][key]

\* This step queues a participant create or an increment of client c for game g.
IssuesJoinWrite(c, g) ==
  /\ Len(writes'[c]) > Len(writes[c])
  /\ \E i \in (Len(writes[c]) + 1) .. Len(writes'[c]) :
       writes'[c][i].op \in {"createPart", "increment"} /\ writes'[c][i].gid = g

\* No participant create and no increment is queued for a game id that has no
\* document in the store, and no participant read is started for one.
JoinOnlyOfStoredGame ==
  [][\A c \in Clients : \A g \in GameIds :
       (IssuesRead(c, g) \/ IssuesJoinWrite(c, g)) => games'[g].exists]_vars

\* C28: a client starts the participant read of game g, and queues the
\* participant create and the increment of g, only when its game listener is
\* on g and has delivered a snapshot in which g's document exists; g then
\* has a document in the store.
C28_JoinAfterGameObserved ==
  [][\A c \in Clients : \A g \in GameIds :
       /\ IssuesRead(c, g) =>
            /\ gameSub'[c].active /\ gameSub'[c].gid = g /\ gameSub'[c].delivered
            /\ gameData'[c].exists
            /\ games'[g].exists
       /\ IssuesJoinWrite(c, g) => games'[g].exists]_vars

ItemCells(lay) == {k \in 1 .. Len(lay) : lay[k] # Gap}

ItemCell(lay, k) ==
  CHOOSE p \in ItemCells(lay) : Cardinality({q \in ItemCells(lay) : q < p}) = k - 1

====
